---- MODULE Spec2Model ----
(***************************************************************************)
(* Real-time layer of the Gas Town dashboard API server (src/api/index.js): *)
(*   - the peek session multiplexer (peekStreams, wssPeek),                 *)
(*   - the broadcast hub (clients, wss, broadcast),                         *)
(*   - the event log tailer (watchEvents, lastEventCount),                  *)
(*   - the convoy snapshot poller.                                          *)
(* Every handler of the single-threaded event loop is one atomic action.    *)
(***************************************************************************)
EXTENDS Integers, Sequences, FiniteSets, Bags, TLC

(* ------------------------------------------------------------------ *)
(* Bounds of the model                                                *)
(* ------------------------------------------------------------------ *)
MaxConn == 3
MaxProc == 2
MaxStreamConn == 2
MaxStreamData == 2
MaxHubConn == 2
MaxTicks == 2
MaxAppend == 3
MaxInflight == 2
MaxRewrite == 1
MaxReq == 3
MaxText == 4
MaxIsoData == 1
MaxFeedTicks == 1
MaxSockets == 8

Keys == {"k1", "k2"}
Conns == 1..MaxConn
Procs == 1..MaxProc
HubConns == 1..MaxHubConn

NL == "\n"
SP == " "

(* stdout / stderr 'data' chunks the pipe may hand over: a whole line, two  *)
(* lines in one chunk, the two halves of the line "ab", and a blank line.   *)
Chunks == { <<"a", NL>>, <<"a", NL, "b", NL>>, <<"a">>, <<"b", NL>>, <<SP, NL>> }

VARIABLES
  (* peek multiplexer *)
  connState,      \* peek connection: "new" | "open" | "closing" | "errored" | "gone"
  connKey,        \* polecatId decoded from the connection's URL
  peekStreams,    \* Map polecatId -> stream (0: no entry); a stream is named by its process
  streamClients,  \* stream.clients of every stream object ever created
  procState,      \* "none" | "running" | "killed" | "closed" | "reaped" | "failed"
  procKey,        \* the polecatId a process was spawned for
  timers,         \* pending grace timers, in creation order (all have the same delay):
                  \* [key: the polecatId of the closure; stream, fresh: history, the
                  \* stream whose set was empty and whether that was its last emptying]
  peekInbox,      \* frames sent to each peek connection, in order
  dataCount,      \* number of 'data' events delivered so far
  (* history of the peek multiplexer *)
  home,           \* the stream a connection was added to (0: none)
  joinedAt,       \* what its stream had written ([bytes]) and forwarded ([msgs]) when the
                  \* connection was added
  outMsgs,        \* output messages forwarded by each stream's stdout handler
  stdoutBytes,    \* everything each process wrote to stdout so far
  stderrBytes,    \* everything each process wrote to stderr so far
  (* broadcast hub and convoy poller *)
  hubState,       \* hub connection: "new" | "open" | "closing" | "errored" | "gone"
  clients,        \* the Set of connected clients
  hubInbox,       \* frames sent to each hub connection, in order
  statusReq,      \* runGt('status --json') of a connection: "none" | "pending" | "done"
  convoyRuns,     \* poll ticks whose runGt('convoy list --json') is in flight
  nextTick,       \* number of the next poll tick
  lastConvoy,     \* history: how the last finished convoy poll's invocation ended
  sendErrors,     \* where a send was attempted on a socket that is not OPEN
  pubLog,         \* history: every broadcast call, with the members open at the call
  (* event log tailer *)
  fileExists,     \* .events.jsonl exists
  log,            \* its lines: << kind, id >>, kind "rec" | "bad" | "falsy" | "blank"
  nextRec,        \* id of the next appended line
  rewrites,       \* how often the file was removed or recreated empty
  lastEventCount, \* let lastEventCount
  polls,          \* the watchEvents calls in flight (a bag)
  crashed,        \* an exception escaped watchEvents
  lastPoll,       \* history: how the last finished watchEvents call ended:
                  \* "none" | "failed" | "stale" | "shrunk" | "nothing" | "emitted"
  (* connection router *)
  upgrades,       \* history: the upgrade requests handled: [path, target, conn]
  serverUp,       \* no exception has escaped a handler of the server process
  (* process runner and output interpreter *)
  toolCmd,        \* the helper called: "gt" (runGt) | "bd" (runBd)
  toolEnding,     \* how the exec of the command ends
  toolStdout,     \* what the command wrote to stdout, as a sequence of characters
  runResult,      \* what the helper returned (Pending before that)
  parsed,         \* what parseJsonOutput returned for the output: << kind, content >>,
                  \* kind "pending" | "null" | "num" | "arr"
  (* dashboard page of the frontend *)
  dashPhase,      \* the Dashboard component: "initial" | "mounted" | "unmounted"
  sockets,        \* the WebSockets connectWebSocket created, in order: [state:
                  \* "connecting" | "open" | "closing" | "closed"; mounted: history,
                  \* whether the component was mounted when the socket was created]
  wsRef,          \* wsRef.current: the socket created last (0: null)
  wsConnected,    \* the wsConnected state of the component
  reconnects      \* pending setTimeout(connectWebSocket, 3000) timers

peekVars == << connState, connKey, peekStreams, streamClients, procState, procKey,
               timers, peekInbox, dataCount,
               home, joinedAt, outMsgs, stdoutBytes, stderrBytes >>

hubVars == << hubState, clients, hubInbox, statusReq, convoyRuns, nextTick, lastConvoy,
              sendErrors, pubLog >>

tailVars == << fileExists, log, nextRec, rewrites, lastEventCount, polls, crashed,
               lastPoll >>

routeVars == << upgrades, serverUp >>

toolVars == << toolCmd, toolEnding, toolStdout, runResult, parsed >>

dashVars == << dashPhase, sockets, wsRef, wsConnected, reconnects >>

vars == << peekVars, hubVars, tailVars, routeVars, toolVars, dashVars >>

(* ------------------------------------------------------------------ *)
(* Helpers                                                            *)
(* ------------------------------------------------------------------ *)
Msg(t, d) == [type |-> t, data |-> d]

(* client.readyState === 1 *)
ReadyOpen(c) == connState[c] = "open"

(* String.prototype.split('\n') on a chunk given as a sequence of characters *)
RECURSIVE SplitNL(_, _)
SplitNL(chars, cur) ==
  IF chars = << >> THEN << cur >>
  ELSE IF Head(chars) = NL THEN << cur >> \o SplitNL(Tail(chars), << >>)
  ELSE SplitNL(Tail(chars), Append(cur, Head(chars)))

(* line.trim() is truthy *)
TrimTruthy(line) == \E i \in 1..Len(line) : line[i] \notin {SP, NL}

(* the lines of one stdout chunk that the handler forwards *)
ForwardedLines(chunk) == SelectSeq(SplitNL(chunk, << >>), TrimTruthy)

(* stream.clients.forEach(client => { if (client.readyState === 1) client.send(msg) }) *)
SendTargets(s) == { c \in streamClients[s] : ReadyOpen(c) }

RECURSIVE OutputMsgs(_)
OutputMsgs(lines) ==
  IF lines = << >> THEN << >>
  ELSE << Msg("output", Head(lines)) >> \o OutputMsgs(Tail(lines))

Deliver(box, targets, msgs) ==
  [c \in Conns |-> IF c \in targets THEN box[c] \o msgs ELSE box[c]]

(* variant: the map is never found to hold the key *)
HasStreamNever(k) == FALSE

(* peekStreams.has(polecatId) *)
HasStream(k) == peekStreams[k] # 0

NextProc == Cardinality({ p \in Procs : procState[p] # "none" }) + 1

(* ------------------------------------------------------------------ *)
(* Broadcast hub: clients, wss.on('connection'), broadcast            *)
(* ------------------------------------------------------------------ *)
HubMsg(t, id) == [type |-> t, data |-> id]

(* ws accepts a frame only on a socket that is OPEN *)
WsSendOk(c) == hubState[c] = "open"

(* variant: broadcast without the readyState test *)
BroadcastTargetsAll == clients

(* broadcast: clients.forEach(client => { if (client.readyState === 1) ... }) *)
BroadcastTargets == { c \in clients : hubState[c] = "open" }

(* variant: the message is kept for every member, open or not *)
BroadcastQueued(box, msgs) ==
  [c \in HubConns |-> IF c \in clients THEN box[c] \o msgs ELSE box[c]]

(* broadcast: client.send(data) to each target, once per message, in order *)
Broadcast(box, msgs) ==
  [c \in HubConns |->
     IF c \in BroadcastTargets /\ WsSendOk(c) THEN box[c] \o msgs ELSE box[c]]

(* variant: broadcast drops the members it finds not open *)
ClientsPruned(msgs) ==
  IF msgs = << >> THEN clients ELSE { c \in clients : hubState[c] = "open" }

(* the Set after broadcast was called for each message: forEach only reads it *)
ClientsAfterBroadcast(msgs) == clients

BroadcastErrors ==
  IF \E c \in BroadcastTargets : ~WsSendOk(c) THEN {"broadcast"} ELSE {}

(* history: the calls of broadcast and the members that were open at each *)
Published(msgs) ==
  [i \in 1..Len(msgs) |->
     [msg |-> msgs[i], rcpt |-> { c \in clients : hubState[c] = "open" }]]

HubInit ==
  /\ hubState = [c \in HubConns |-> "new"]
  /\ clients = {}
  /\ hubInbox = [c \in HubConns |-> << >>]
  /\ statusReq = [c \in HubConns |-> "none"]
  /\ convoyRuns = {}
  /\ nextTick = 1
  /\ lastConvoy = "none"
  /\ sendErrors = {}
  /\ pubLog = << >>

(* wss.on('connection'): clients.add(ws); runGt('status --json') is started *)
HubSubscribe(c) ==
  /\ hubState[c] = "new"
  /\ \A d \in HubConns : d < c => hubState[d] # "new"
  /\ hubState' = [hubState EXCEPT ![c] = "open"]
  /\ clients' = clients \cup {c}
  /\ statusReq' = [statusReq EXCEPT ![c] = "pending"]
  /\ UNCHANGED << hubInbox, convoyRuns, nextTick, lastConvoy, sendErrors, pubLog >>

(* a connection request for '/ws' arrives and is handed to wss *)
HubConnect(c) ==
  /\ HubSubscribe(c)
  /\ UNCHANGED << peekVars, tailVars, routeVars, toolVars, dashVars >>

(* if (result.success) ws.send(status) *)
SendsStatus(success) == success

(* .then(result => ...) of the initial status request *)
StatusDone(c, success) ==
  /\ statusReq[c] = "pending"
  /\ statusReq' = [statusReq EXCEPT ![c] = "done"]
  /\ IF SendsStatus(success)
       THEN IF WsSendOk(c)
              THEN /\ hubInbox' = [hubInbox EXCEPT ![c] = Append(@, HubMsg("status", 0))]
                   /\ UNCHANGED sendErrors
              ELSE /\ sendErrors' = sendErrors \cup {"status"}
                   /\ UNCHANGED hubInbox
       ELSE UNCHANGED << hubInbox, sendErrors >>
  /\ UNCHANGED << hubState, clients, convoyRuns, nextTick, lastConvoy, pubLog >>
  /\ UNCHANGED << peekVars, tailVars, routeVars, toolVars, dashVars >>

(* the socket leaves OPEN before its 'close' event is emitted *)
HubBeginClose(c) ==
  /\ hubState[c] = "open"
  /\ hubState' = [hubState EXCEPT ![c] = "closing"]
  /\ UNCHANGED << clients, hubInbox, statusReq, convoyRuns, nextTick, lastConvoy,
                  sendErrors, pubLog >>
  /\ UNCHANGED << peekVars, tailVars, routeVars, toolVars, dashVars >>

(* the socket emits 'error' (a protocol error of the peer): the hub registers no *)
(* 'error' listener, so the emit throws and the exception ends the process      *)
HubWsError(c) ==
  /\ hubState[c] = "open"
  /\ hubState' = [hubState EXCEPT ![c] = "errored"]
  /\ serverUp' = FALSE
  /\ UNCHANGED << clients, hubInbox, statusReq, convoyRuns, nextTick, lastConvoy,
                  sendErrors, pubLog >>
  /\ UNCHANGED << peekVars, tailVars, upgrades, toolVars, dashVars >>

(* ws.on('close'): clients.delete(ws) *)
HubClose(c) ==
  /\ hubState[c] \in {"open", "closing"}
  /\ hubState' = [hubState EXCEPT ![c] = "gone"]
  /\ clients' = clients \ {c}
  /\ UNCHANGED << hubInbox, statusReq, convoyRuns, nextTick, lastConvoy, sendErrors, pubLog >>
  /\ UNCHANGED << peekVars, tailVars, routeVars, toolVars, dashVars >>

(* setInterval(async () => ..., 5000): a tick starts runGt('convoy list --json') *)
ConvoyTick ==
  /\ nextTick <= MaxTicks
  /\ convoyRuns' = convoyRuns \cup {nextTick}
  /\ nextTick' = nextTick + 1
  /\ UNCHANGED << hubState, clients, hubInbox, statusReq, lastConvoy, sendErrors, pubLog >>
  /\ UNCHANGED << peekVars, tailVars, routeVars, toolVars, dashVars >>

(* how an invocation of 'convoy list --json' can end: it fails, or it succeeds *)
(* with output that is no JSON, the JSON text null, or a JSON list            *)
ConvoyOutcomes == {"failed", "unparsable", "null", "list"}

(* result.success *)
ConvoySuccess(outcome) == outcome # "failed"

(* parseJsonOutput(result.output): "none" stands for null, the value of the *)
(* JSON text null and the result of a failed parse alike                    *)
ConvoyData(outcome) == IF outcome = "list" THEN "list" ELSE "none"

(* if (result.success) { data = parseJsonOutput(result.output); if (data) broadcast } *)
ConvoyBroadcasts(outcome) == ConvoySuccess(outcome) /\ ConvoyData(outcome) # "none"

(* the invocation of tick t returns *)
ConvoyDone(t, outcome) ==
  /\ t \in convoyRuns
  /\ convoyRuns' = convoyRuns \ {t}
  /\ lastConvoy' = outcome
  /\ LET msgs == IF ConvoyBroadcasts(outcome) THEN << HubMsg("convoys", t) >> ELSE << >>
     IN /\ hubInbox' = Broadcast(hubInbox, msgs)
        /\ pubLog' = pubLog \o Published(msgs)
        /\ sendErrors' = IF msgs = << >> THEN sendErrors
                                         ELSE sendErrors \cup BroadcastErrors
        /\ clients' = ClientsAfterBroadcast(msgs)
  /\ UNCHANGED << hubState, statusReq, nextTick >>
  /\ UNCHANGED << peekVars, tailVars, routeVars, toolVars, dashVars >>

(* ------------------------------------------------------------------ *)
(* Event log tailer: watchEvents, lastEventCount                      *)
(* ------------------------------------------------------------------ *)
(* a line of the log: an event record, a line that is no JSON, a line that is the *)
(* JSON text of a falsy value (null, 0, false, ""), or an empty line             *)
LineKinds == {"rec", "bad", "falsy", "blank"}

TailInit ==
  /\ fileExists = FALSE
  /\ log = << >>
  /\ nextRec = 1
  /\ rewrites = 0
  /\ lastEventCount = 0
  /\ polls = EmptyBag
  /\ crashed = FALSE
  /\ lastPoll = "none"

(* the external system appends one line (creating the file) *)
AppendLine(kind) ==
  /\ nextRec <= MaxAppend
  /\ log' = Append(log, << kind, nextRec >>)
  /\ nextRec' = nextRec + 1
  /\ fileExists' = TRUE
  /\ UNCHANGED << rewrites, lastEventCount, polls, crashed, lastPoll >>
  /\ UNCHANGED << peekVars, hubVars, routeVars, toolVars, dashVars >>

(* the log was only ever appended to *)
AppendOnly == rewrites = 0

(* the file is removed *)
RemoveFile ==
  /\ fileExists
  /\ rewrites < MaxRewrite
  /\ fileExists' = FALSE
  /\ log' = << >>
  /\ rewrites' = rewrites + 1
  /\ UNCHANGED << nextRec, lastEventCount, polls, crashed, lastPoll >>
  /\ UNCHANGED << peekVars, hubVars, routeVars, toolVars, dashVars >>

(* the file is recreated empty *)
RewriteFile ==
  /\ fileExists
  /\ log # << >>
  /\ rewrites < MaxRewrite
  /\ log' = << >>
  /\ rewrites' = rewrites + 1
  /\ UNCHANGED << fileExists, nextRec, lastEventCount, polls, crashed, lastPoll >>
  /\ UNCHANGED << peekVars, hubVars, routeVars, toolVars, dashVars >>

(* setInterval(watchEvents, 2000): a call starts fs.readFile and awaits it *)
WatchEvents ==
  /\ ~crashed
  /\ BagCardinality(polls) < MaxInflight
  /\ polls' = polls (+) SetToBag({[phase |-> "reading", ok |-> FALSE, content |-> << >>]})
  /\ UNCHANGED << fileExists, log, nextRec, rewrites, lastEventCount, crashed, lastPoll >>
  /\ UNCHANGED << peekVars, hubVars, routeVars, toolVars, dashVars >>

(* fs.readFile(eventsFile, 'utf-8') reads the file, or fails when there is none *)
ReadFile(q) ==
  /\ BagIn(q, polls)
  /\ q.phase = "reading"
  /\ polls' = (polls (-) SetToBag({q}))
                (+) SetToBag({[q EXCEPT !.phase = "read", !.ok = fileExists,
                                        !.content = log]})
  /\ UNCHANGED << fileExists, log, nextRec, rewrites, lastEventCount, crashed, lastPoll >>
  /\ UNCHANGED << peekVars, hubVars, routeVars, toolVars, dashVars >>

(* content.trim().split('\n').filter(Boolean) *)
IsNonEmpty(line) == line[1] # "blank"
Lines(content) == SelectSeq(content, IsNonEmpty)

(* variant: a file whose line count differs from the count is taken to be new *)
HasNewOrShrunk(lines, seen) == Len(lines) # seen

(* lines.length > lastEventCount *)
HasNew(lines, seen) == Len(lines) > seen

(* history: the content was read from a file that had been recreated (it is empty, *)
(* or its first line is not the first line ever appended)                          *)
Recreated(content) == content = << >> \/ content[1][2] # 1

(* variant: the slice starts one line late *)
NewLinesSkip(lines, seen) == SubSeq(lines, seen + 2, Len(lines))

(* lines.slice(lastEventCount) *)
NewLines(lines, seen) == SubSeq(lines, seen + 1, Len(lines))

(* try { return JSON.parse(line) } catch { return null }: a record parses to  *)
(* itself (its id), 0 stands for the null of a failed parse and -1 for a falsy *)
(* value that was parsed                                                       *)
ParseLine(line) ==
  IF line[1] = "rec" THEN line[2] ELSE IF line[1] = "falsy" THEN -1 ELSE 0

(* Boolean(value) *)
Truthy(value) == value > 0

(* .map(parse).filter(Boolean) *)
RECURSIVE NewEvents(_)
NewEvents(lines) ==
  IF lines = << >> THEN << >>
  ELSE IF Truthy(ParseLine(Head(lines)))
         THEN << ParseLine(Head(lines)) >> \o NewEvents(Tail(lines))
         ELSE NewEvents(Tail(lines))

(* variant: the batch is broadcast newest first *)
RECURSIVE EventMsgsNewestFirst(_)
EventMsgsNewestFirst(events) ==
  IF events = << >> THEN << >>
  ELSE Append(EventMsgsNewestFirst(Tail(events)), HubMsg("event", Head(events)))

(* newEvents.forEach(event => broadcast({ type: 'event', data: event })) *)
RECURSIVE EventMsgs(_)
EventMsgs(events) ==
  IF events = << >> THEN << >>
  ELSE << HubMsg("event", Head(events)) >> \o EventMsgs(Tail(events))

(* variant: the count is not advanced *)
NextEventCountStale(lines) == lastEventCount

(* lastEventCount = lines.length *)
NextEventCount(lines) == Len(lines)

(* variant: the failed read is not caught *)
ReadErrorEscapes == FALSE

(* catch (error) { } : the failed read is swallowed *)
CatchesReadError == TRUE

(* lastEventCount after a failed read: the catch block assigns nothing *)
CountAfterReadError == lastEventCount

(* the rest of watchEvents, after the await *)
WatchEventsResume(q) ==
  /\ BagIn(q, polls)
  /\ q.phase = "read"
  /\ LET lines == Lines(q.content)
         seen == lastEventCount
         emits == q.ok /\ HasNew(lines, seen)
         batch == IF emits THEN NewEvents(NewLines(lines, seen)) ELSE << >>
         count == IF emits THEN NextEventCount(lines)
                  ELSE IF q.ok THEN lastEventCount ELSE CountAfterReadError
     IN /\ hubInbox' = Broadcast(hubInbox, EventMsgs(batch))
        /\ pubLog' = pubLog \o Published(EventMsgs(batch))
        /\ sendErrors' = IF batch = << >> THEN sendErrors
                                          ELSE sendErrors \cup BroadcastErrors
        /\ clients' = ClientsAfterBroadcast(EventMsgs(batch))
        /\ lastEventCount' = count
        /\ crashed' = (crashed \/ (~q.ok /\ ~CatchesReadError))
        /\ lastPoll' = IF ~q.ok THEN "failed"
                        ELSE IF ~emits THEN (IF Recreated(q.content) THEN "shrunk"
                                                                    ELSE "stale")
                        ELSE IF batch = << >> THEN "nothing" ELSE "emitted"
  /\ polls' = polls (-) SetToBag({q})
  /\ UNCHANGED << fileExists, log, nextRec, rewrites >>
  /\ UNCHANGED << hubState, statusReq, convoyRuns, nextTick, lastConvoy >>
  /\ UNCHANGED << peekVars, routeVars, toolVars, dashVars >>

(* ------------------------------------------------------------------ *)
(* Peek multiplexer: wssPeek.on('connection')                         *)
(* ------------------------------------------------------------------ *)
PeekInit ==
  /\ connState = [c \in Conns |-> "new"]
  /\ connKey = [c \in Conns |-> "k1"]
  /\ peekStreams = [k \in Keys |-> 0]
  /\ streamClients = [p \in Procs |-> {}]
  /\ procState = [p \in Procs |-> "none"]
  /\ procKey = [p \in Procs |-> "k1"]
  /\ timers = << >>
  /\ peekInbox = [c \in Conns |-> << >>]
  /\ dataCount = 0
  /\ home = [c \in Conns |-> 0]
  /\ joinedAt = [c \in Conns |-> [bytes |-> 0, msgs |-> 0]]
  /\ outMsgs = [p \in Procs |-> << >>]
  /\ stdoutBytes = [p \in Procs |-> << >>]
  /\ stderrBytes = [p \in Procs |-> << >>]

(* existing stream: stream.clients.add(ws); ws.send(info) *)
JoinExisting(c, k) ==
  LET s == peekStreams[k] IN
  /\ streamClients' = [streamClients EXCEPT ![s] = @ \cup {c}]
  /\ peekInbox' = [peekInbox EXCEPT ![c] =
                     Append(@, Msg("info", << "Joined existing stream" >>))]
  /\ home' = [home EXCEPT ![c] = s]
  /\ joinedAt' = [joinedAt EXCEPT ![c] =
                    [bytes |-> Len(stdoutBytes[s]), msgs |-> Len(outMsgs[s])]]
  /\ timers' = [i \in 1..Len(timers) |->
                  IF timers[i].stream = s THEN [timers[i] EXCEPT !.fresh = FALSE]
                                          ELSE timers[i]]
  /\ UNCHANGED << peekStreams, procState, procKey >>

(* variant: the handlers of a failed spawn leave the entry of the stream in the map *)
SpawnFailKeeps(k) == [peekStreams EXCEPT ![k] = NextProc]

(* peekProcess.on('error') of a failed spawn: peekStreams.delete(polecatId) *)
SpawnFailDelete(k) == [peekStreams EXCEPT ![k] = 0]

(* no stream: spawn(GT_BIN, ['peek', polecatId]); peekStreams.set(polecatId, stream). *)
(* A spawn that fails emits 'error' and then 'close' on the next tick, before any     *)
(* other event is handled: both handlers run with the new entry in place.             *)
SpawnNew(c, k, ok) ==
  LET p == NextProc IN
  /\ p <= MaxProc
  /\ streamClients' = [streamClients EXCEPT ![p] = {c}]
  /\ procKey' = [procKey EXCEPT ![p] = k]
  /\ home' = [home EXCEPT ![c] = p]
  /\ joinedAt' = [joinedAt EXCEPT ![c] = [bytes |-> 0, msgs |-> 0]]
  /\ IF ok
       THEN /\ procState' = [procState EXCEPT ![p] = "running"]
            /\ peekStreams' = [peekStreams EXCEPT ![k] = p]
            /\ peekInbox' = peekInbox
       ELSE /\ procState' = [procState EXCEPT ![p] = "failed"]
            /\ peekStreams' = SpawnFailDelete(k)
            /\ peekInbox' = [peekInbox EXCEPT ![c] =
                 @ \o << Msg("error", << "spawn failed" >>),
                         Msg("info", << "Process exited with code" >>) >>]
  /\ UNCHANGED timers

(* wssPeek.on('connection') with the decoded polecatId k *)
PeekAttach(c, k) ==
  /\ connState[c] = "new"
  /\ \A d \in Conns : d < c => connState[d] # "new"
  /\ connState' = [connState EXCEPT ![c] = "open"]
  /\ connKey' = [connKey EXCEPT ![c] = k]
  /\ IF HasStream(k) THEN JoinExisting(c, k)
                     ELSE \E ok \in BOOLEAN : SpawnNew(c, k, ok)
  /\ UNCHANGED << dataCount, outMsgs, stdoutBytes, stderrBytes >>

(* a connection request for '/ws/peek/<k>' arrives and is handed to wssPeek *)
Attach(c, k) ==
  /\ PeekAttach(c, k)
  /\ UNCHANGED << hubVars, tailVars, routeVars, toolVars, dashVars >>

(* peekProcess.stdout.on('data') *)
ProcStdout(p, chunk) ==
  /\ procState[p] \in {"running", "killed"}
  /\ dataCount' = dataCount + 1
  /\ peekInbox' = Deliver(peekInbox, SendTargets(p), OutputMsgs(ForwardedLines(chunk)))
  /\ outMsgs' = [outMsgs EXCEPT ![p] = @ \o ForwardedLines(chunk)]
  /\ stdoutBytes' = [stdoutBytes EXCEPT ![p] = @ \o chunk]
  /\ stderrBytes' = stderrBytes
  /\ UNCHANGED << connState, connKey, peekStreams, streamClients, procState, procKey,
                  timers, home, joinedAt >>
  /\ UNCHANGED << hubVars, tailVars, routeVars, toolVars, dashVars >>

(* peekProcess.stderr.on('data'): the whole chunk is one error message *)
ProcStderr(p, chunk) ==
  /\ procState[p] \in {"running", "killed"}
  /\ dataCount' = dataCount + 1
  /\ peekInbox' = Deliver(peekInbox, SendTargets(p), << Msg("error", chunk) >>)
  /\ UNCHANGED << connState, connKey, peekStreams, streamClients, procState, procKey,
                  timers, home, joinedAt, outMsgs, stdoutBytes >>
  /\ stderrBytes' = [stderrBytes EXCEPT ![p] = @ \o chunk]
  /\ UNCHANGED << hubVars, tailVars, routeVars, toolVars, dashVars >>

(* variant: the close of a subprocess empties the map *)
CloseDeleteAll(p) == [k \in Keys |-> 0]

(* peekProcess.on('close'): info to the stream's clients, peekStreams.delete(polecatId) *)
CloseDelete(p) == [peekStreams EXCEPT ![procKey[p]] = 0]

ProcClose(p) ==
  /\ procState[p] \in {"running", "killed"}
  /\ procState' = [procState EXCEPT ![p] = IF @ = "killed" THEN "reaped" ELSE "closed"]
  /\ peekInbox' = Deliver(peekInbox, SendTargets(p),
                          << Msg("info", << "Process exited with code" >>) >>)
  /\ peekStreams' = CloseDelete(p)
  /\ UNCHANGED << connState, connKey, streamClients, procKey, timers,
                  dataCount, home, joinedAt, outMsgs, stdoutBytes,
                  stderrBytes >>
  /\ UNCHANGED << hubVars, tailVars, routeVars, toolVars, dashVars >>

(* the socket leaves OPEN (close frame received or sent) before 'close' is emitted *)
ConnBeginClose(c) ==
  /\ connState[c] = "open"
  /\ connState' = [connState EXCEPT ![c] = "closing"]
  /\ UNCHANGED << connKey, peekStreams, streamClients, procState, procKey, timers,
                  peekInbox, dataCount, home, joinedAt, outMsgs, stdoutBytes,
                  stderrBytes >>
  /\ UNCHANGED << hubVars, tailVars, routeVars, toolVars, dashVars >>

(* ws.on('error'): remove the client; no timer is started. 'close' follows. *)
PeekWsError(c) ==
  /\ connState[c] = "open"
  /\ connState' = [connState EXCEPT ![c] = "errored"]
  /\ LET s == peekStreams[connKey[c]] IN
       streamClients' = IF s # 0 THEN [streamClients EXCEPT ![s] = @ \ {c}]
                                 ELSE streamClients
  /\ UNCHANGED << connKey, peekStreams, procState, procKey, timers,
                  peekInbox, dataCount, home, joinedAt, outMsgs, stdoutBytes,
                  stderrBytes >>
  /\ UNCHANGED << hubVars, tailVars, routeVars, toolVars, dashVars >>

(* if (stream.clients.size === 0) setTimeout(..., 5000) *)
StartsTimer(rest) == rest = {}

(* a pending timer started when the set of stream s last became empty *)
InGrace(s) == \E i \in 1..Len(timers) : timers[i].stream = s /\ timers[i].fresh

(* the new timer; it marks the last emptying of s unless s was already empty and *)
(* a timer of that emptying is still pending                                     *)
WithTimer(k, s, emptied) ==
  LET last == emptied \/ ~InGrace(s) IN
  Append([i \in 1..Len(timers) |->
            IF last /\ timers[i].stream = s THEN [timers[i] EXCEPT !.fresh = FALSE]
                                            ELSE timers[i]],
         [key |-> k, stream |-> s, fresh |-> last])

(* ws.on('close'): remove the client from the key's current stream *)
PeekWsClose(c) ==
  /\ connState[c] \in {"open", "closing", "errored"}
  /\ connState' = [connState EXCEPT ![c] = "gone"]
  /\ LET k == connKey[c]
         s == peekStreams[k]
         rest == IF s # 0 THEN streamClients[s] \ {c} ELSE {}
     IN IF s # 0
          THEN /\ streamClients' = [streamClients EXCEPT ![s] = rest]
               /\ timers' = IF StartsTimer(rest)
                              THEN WithTimer(k, s, c \in streamClients[s])
                              ELSE timers
          ELSE UNCHANGED << streamClients, timers >>
  /\ UNCHANGED << connKey, peekStreams, procState, procKey, peekInbox, dataCount,
                  home, joinedAt, outMsgs, stdoutBytes,
                  stderrBytes >>
  /\ UNCHANGED << hubVars, tailVars, routeVars, toolVars, dashVars >>

(* the setTimeout callback: kill and delete if the current entry has no clients *)
TimerKills(k) == peekStreams[k] # 0 /\ streamClients[peekStreams[k]] = {}

TimerFire ==
  /\ timers # << >>
  /\ timers' = Tail(timers)
  /\ LET k == Head(timers).key
         s == peekStreams[k]
     IN IF TimerKills(k)
          THEN /\ procState' = [procState EXCEPT ![s] =
                                  IF @ = "running" THEN "killed" ELSE @]
               /\ peekStreams' = [peekStreams EXCEPT ![k] = 0]
          ELSE UNCHANGED << procState, peekStreams >>
  /\ UNCHANGED << connState, connKey, streamClients, procKey, peekInbox,
                  dataCount, home, joinedAt, outMsgs, stdoutBytes,
                  stderrBytes >>
  /\ UNCHANGED << hubVars, tailVars, routeVars, toolVars, dashVars >>

(* ------------------------------------------------------------------ *)
(* Connection router: server.on('upgrade') and the key decoding       *)
(* ------------------------------------------------------------------ *)
(* request paths, as sequences of characters *)
PathWs == << "/", "w", "s" >>
PathWsSlash == << "/", "w", "s", "/" >>
PathPeekK1 == << "/", "w", "s", "/", "p", "e", "e", "k", "/", "k", "1" >>
PathPeekK2Esc == << "/", "w", "s", "/", "p", "e", "e", "k", "/", "k", "%", "3", "2" >>
PathPeekK1Esc == << "/", "w", "s", "/", "p", "e", "e", "k", "/", "%", "6", "B", "1" >>
PathPeekBadEsc == << "/", "w", "s", "/", "p", "e", "e", "k", "/", "%" >>
PathPeekCutEsc == << "/", "w", "s", "/", "p", "e", "e", "k", "/", "k", "%", "2" >>
PathPeekNoSlash == << "/", "w", "s", "/", "p", "e", "e", "k" >>
PathApi == << "/", "a", "p", "i" >>
PathInner == << "/", "x", "/", "w", "s", "/", "p", "e", "e", "k", "/", "k", "1" >>

Paths == { PathWs, PathWsSlash, PathPeekK1, PathPeekK2Esc, PathPeekK1Esc, PathPeekBadEsc, PathPeekCutEsc, PathPeekNoSlash, PathApi, PathInner }

WsPath == << "/", "w", "s" >>
PeekPrefix == << "/", "w", "s", "/", "p", "e", "e", "k", "/" >>

(* String.prototype.startsWith *)
StartsWith(str, pre) == Len(str) >= Len(pre) /\ SubSeq(str, 1, Len(pre)) = pre

(* String.prototype.replace(pat, ''): the first occurrence of pat is removed *)
RECURSIVE RemoveFirst(_, _)
RemoveFirst(str, pat) ==
  IF Len(str) < Len(pat) THEN str
  ELSE IF StartsWith(str, pat) THEN SubSeq(str, Len(pat) + 1, Len(str))
  ELSE << Head(str) >> \o RemoveFirst(Tail(str), pat)

HexDigits == {"0", "1", "2", "3", "4", "5", "6", "7", "8", "9", "A", "B", "C", "D", "E", "F"}

(* the character of an escape %xy (those of the paths above; "?" for any other) *)
Unescape(x, y) ==
  IF << x, y >> = << "3", "1" >> THEN "1"
  ELSE IF << x, y >> = << "3", "2" >> THEN "2"
  ELSE IF << x, y >> = << "6", "B" >> THEN "k"
  ELSE "?"

(* decodeURIComponent throws URIError on a % that two hex digits do not follow *)
RECURSIVE DecodeThrows(_)
DecodeThrows(str) ==
  IF str = << >> THEN FALSE
  ELSE IF Head(str) = "%"
         THEN IF Len(str) >= 3 /\ str[2] \in HexDigits /\ str[3] \in HexDigits
                THEN DecodeThrows(SubSeq(str, 4, Len(str)))
                ELSE TRUE
  ELSE DecodeThrows(Tail(str))

(* decodeURIComponent of a string on which it does not throw *)
RECURSIVE Decode(_)
Decode(str) ==
  IF str = << >> THEN << >>
  ELSE IF Head(str) = "%"
         THEN << Unescape(str[2], str[3]) >> \o Decode(SubSeq(str, 4, Len(str)))
  ELSE << Head(str) >> \o Decode(Tail(str))

(* the polecatId as a key of the model *)
KeyName(chars) ==
  IF chars = << "k", "1" >> THEN "k1"
  ELSE IF chars = << "k", "2" >> THEN "k2"
  ELSE "other"

(* pathname.replace('/ws/peek/', '') *)
PolecatPart(path) == RemoveFirst(path, PeekPrefix)

(* server.on('upgrade'): which server handles the request *)
Route(path) ==
  IF path = WsPath THEN "wss"
  ELSE IF StartsWith(path, PeekPrefix) THEN "wssPeek"
  ELSE "destroy"

RouteInit ==
  /\ upgrades = << >>
  /\ serverUp = TRUE

(* server.on('upgrade') and, in the same turn, the 'connection' handler of the   *)
(* server the request is handed to; an exception thrown by decodeURIComponent    *)
(* escapes the handler and ends the process                                      *)
Upgrade(path) ==
  /\ serverUp
  /\ Len(upgrades) < MaxReq
  /\ LET target == Route(path) IN
       IF target = "wss"
         THEN /\ \E c \in HubConns :
                   /\ HubSubscribe(c)
                   /\ upgrades' = Append(upgrades, [path |-> path, target |-> target, conn |-> c])
              /\ UNCHANGED << peekVars, serverUp >>
       ELSE IF target = "wssPeek"
         THEN IF DecodeThrows(PolecatPart(path))
                THEN /\ serverUp' = FALSE
                     /\ upgrades' = Append(upgrades, [path |-> path, target |-> target, conn |-> 0])
                     /\ UNCHANGED << peekVars, hubVars >>
                ELSE /\ \E c \in Conns :
                          /\ PeekAttach(c, KeyName(Decode(PolecatPart(path))))
                          /\ upgrades' = Append(upgrades, [path |-> path, target |-> target, conn |-> c])
                     /\ UNCHANGED << hubVars, serverUp >>
       ELSE /\ upgrades' = Append(upgrades, [path |-> path, target |-> target, conn |-> 0])
            /\ UNCHANGED << peekVars, hubVars, serverUp >>
  /\ UNCHANGED << tailVars, toolVars, dashVars >>

(* ------------------------------------------------------------------ *)
(* Process runner (runGt, runBd) and output interpreter               *)
(* ------------------------------------------------------------------ *)
(* how child_process.exec can end: the exit code and signal of the child, the    *)
(* error exec made itself (ex), and whether the timeout ran out, on which exec   *)
(* kills the child with SIGTERM                                                  *)
Endings ==
  { [code |-> "0",    signal |-> "none",    ex |-> "none",      timedOut |-> FALSE],
    [code |-> "1",    signal |-> "none",    ex |-> "none",      timedOut |-> FALSE],
    [code |-> "127",  signal |-> "none",    ex |-> "none",      timedOut |-> FALSE],
    [code |-> "null", signal |-> "SIGKILL", ex |-> "none",      timedOut |-> FALSE],
    [code |-> "null", signal |-> "SIGTERM", ex |-> "none",      timedOut |-> TRUE],
    [code |-> "null", signal |-> "none",    ex |-> "ENOENT",    timedOut |-> FALSE],
    [code |-> "null", signal |-> "SIGTERM", ex |-> "MAXBUFFER", timedOut |-> FALSE] }

(* the characters of an output *)
TextChars == {"[", "]", "1", " ", "x"}

(* for illustration: '[1]' is JSON, 'x1' is not *)
Texts == UNION { [1..n -> TextChars] : n \in 0..MaxText }

(* variant: only the exit code decides *)
ExecRejectsOnCode(e) == e.code \in {"1", "127"}

(* exec's exit handler: the promise resolves only for code 0, no signal, no error *)
ExecRejects(e) == ~(e.ex = "none" /\ e.code = "0" /\ e.signal = "none")

(* error.message: the error's own message or 'Command failed: <cmd>' *)
ErrorMessage(cmd, e) == IF e.ex # "none" THEN << e.ex >> ELSE << "Command failed: ", cmd >>

(* try { await execAsync(...); return { success: true, output: stdout } } *)
(* catch (error) { return { success: false, error: error.message } }      *)
RunResult(cmd, e, stdout) ==
  IF ExecRejects(e)
    THEN [success |-> FALSE, error |-> ErrorMessage(cmd, e)]
    ELSE [success |-> TRUE, output |-> stdout]

(* String.prototype.trim *)
RECURSIVE TrimStart(_)
TrimStart(str) ==
  IF str # << >> /\ Head(str) = " " THEN TrimStart(Tail(str)) ELSE str

RECURSIVE TrimEnd(_)
TrimEnd(str) ==
  IF str # << >> /\ str[Len(str)] = " " THEN TrimEnd(SubSeq(str, 1, Len(str) - 1)) ELSE str

Trim(str) == TrimEnd(TrimStart(str))

(* the length of the run of digits a string starts with *)
RECURSIVE DigitRun(_)
DigitRun(str) ==
  IF str # << >> /\ Head(str) = "1" THEN 1 + DigitRun(Tail(str)) ELSE 0

NoValue == [ok |-> FALSE, val |-> << >>, rest |-> << >>]

(* JSON.parse: one value (a number or an array of at most one value) from the *)
(* start of the string, white space skipped                                   *)
RECURSIVE ParseValue(_)
ParseValue(str) ==
  LET t == TrimStart(str) IN
  IF t = << >> THEN NoValue
  ELSE IF Head(t) = "1"
    THEN [ok |-> TRUE, val |-> << "num", SubSeq(t, 1, DigitRun(t)) >>,
          rest |-> SubSeq(t, DigitRun(t) + 1, Len(t))]
  ELSE IF Head(t) = "["
    THEN LET u == TrimStart(Tail(t)) IN
         IF u # << >> /\ Head(u) = "]"
           THEN [ok |-> TRUE, val |-> << "arr", << >> >>, rest |-> Tail(u)]
           ELSE LET e == ParseValue(u)
                    v == TrimStart(e.rest)
                IN IF e.ok /\ v # << >> /\ Head(v) = "]"
                     THEN [ok |-> TRUE, val |-> << "arr", << e.val >> >>, rest |-> Tail(v)]
                     ELSE NoValue
  ELSE NoValue

(* JSON.parse throws SyntaxError unless the whole string is one value *)
JsonParseThrows(str) ==
  LET r == ParseValue(str) IN ~(r.ok /\ TrimStart(r.rest) = << >>)

JsonParse(str) == ParseValue(str).val

(* variant: the parse is not guarded by try/catch *)
ParseJsonOutputBare(output) ==
  IF JsonParseThrows(Trim(output)) THEN << "throws", << >> >> ELSE JsonParse(Trim(output))

(* parseJsonOutput: try { return JSON.parse(output.trim()) } catch { return null } *)
ParseJsonOutput(output) ==
  IF JsonParseThrows(Trim(output)) THEN << "null", << >> >> ELSE JsonParse(Trim(output))

Pending == [pending |-> TRUE]

(* no invocation is under way *)
ToolIdle ==
  /\ toolCmd = "gt"
  /\ toolEnding = [code |-> "0", signal |-> "none", ex |-> "none", timedOut |-> FALSE]
  /\ toolStdout = << >>
  /\ runResult = Pending
  /\ parsed = << "pending", << >> >>

(* runGt / runBd returns *)
RunReturns ==
  /\ runResult = Pending
  /\ runResult' = RunResult(toolCmd, toolEnding, toolStdout)
  /\ UNCHANGED << toolCmd, toolEnding, toolStdout, parsed >>
  /\ UNCHANGED << peekVars, hubVars, tailVars, routeVars, dashVars >>

(* the caller interprets the output of a successful invocation *)
ParseOutput ==
  /\ runResult # Pending
  /\ runResult.success
  /\ parsed = << "pending", << >> >>
  /\ parsed' = ParseJsonOutput(runResult.output)
  /\ UNCHANGED << toolCmd, toolEnding, toolStdout, runResult >>
  /\ UNCHANGED << peekVars, hubVars, tailVars, routeVars, dashVars >>

(* ------------------------------------------------------------------ *)
(* Dashboard page: the system-wide WebSocket and its reconnect        *)
(* ------------------------------------------------------------------ *)
DashInit ==
  /\ dashPhase = "initial"
  /\ sockets = << >>
  /\ wsRef = 0
  /\ wsConnected = FALSE
  /\ reconnects = 0

(* a socket that has not been closed *)
Live(sock) == sock.state \in {"connecting", "open", "closing"}

(* ws.onclose: setTimeout(connectWebSocket, 3000) *)
ReconnectsAfterClose == reconnects + 1

(* connectWebSocket(): new WebSocket(WS_URL) is kept in wsRef.current. WS_URL is *)
(* a constant that parses as a ws: URL, so the constructor does not throw and    *)
(* the catch block is not entered; a connection that cannot be made is reported  *)
(* by the close event of the socket.                                             *)
ConnectWebSocket(nowMounted) ==
  /\ Len(sockets) < MaxSockets
  /\ sockets' = Append(sockets, [state |-> "connecting", mounted |-> nowMounted])
  /\ wsRef' = Len(sockets) + 1

(* useEffect(() => { fetchAll(); connectWebSocket(); ... }, []) on mount *)
Mount ==
  /\ dashPhase = "initial"
  /\ dashPhase' = "mounted"
  /\ ConnectWebSocket(TRUE)
  /\ UNCHANGED << wsConnected, reconnects >>
  /\ UNCHANGED << peekVars, hubVars, tailVars, routeVars, toolVars >>

(* the cleanup of the effect on unmount: wsRef.current?.close() *)
Unmount ==
  /\ dashPhase = "mounted"
  /\ dashPhase' = "unmounted"
  /\ sockets' = IF wsRef # 0 /\ sockets[wsRef].state \in {"connecting", "open"}
                  THEN [sockets EXCEPT ![wsRef].state = "closing"]
                  ELSE sockets
  /\ UNCHANGED << wsRef, wsConnected, reconnects >>
  /\ UNCHANGED << peekVars, hubVars, tailVars, routeVars, toolVars >>

(* ws.onopen = () => setWsConnected(true) *)
WsOpen(i) ==
  /\ i \in 1..Len(sockets)
  /\ sockets[i].state = "connecting"
  /\ sockets' = [sockets EXCEPT ![i].state = "open"]
  /\ wsConnected' = TRUE
  /\ UNCHANGED << dashPhase, wsRef, reconnects >>
  /\ UNCHANGED << peekVars, hubVars, tailVars, routeVars, toolVars >>

(* ws.onclose = () => { setWsConnected(false); setTimeout(connectWebSocket, 3000) }: *)
(* the connection failed, was closed by the server, or close() has completed        *)
WsClosed(i) ==
  /\ i \in 1..Len(sockets)
  /\ Live(sockets[i])
  /\ sockets' = [sockets EXCEPT ![i].state = "closed"]
  /\ wsConnected' = FALSE
  /\ reconnects' = ReconnectsAfterClose
  /\ UNCHANGED << dashPhase, wsRef >>
  /\ UNCHANGED << peekVars, hubVars, tailVars, routeVars, toolVars >>

(* a reconnect timer expires: connectWebSocket() *)
ReconnectFire ==
  /\ reconnects > 0
  /\ reconnects' = reconnects - 1
  /\ ConnectWebSocket(dashPhase = "mounted")
  /\ UNCHANGED << dashPhase, wsConnected >>
  /\ UNCHANGED << peekVars, hubVars, tailVars, routeVars, toolVars >>

(* the life cycle of the streams of every key *)
PeekNext ==
  \/ \E c \in Conns, k \in Keys : Attach(c, k)
  \/ \E p \in Procs : ProcClose(p)
  \/ \E c \in Conns : ConnBeginClose(c)
  \/ \E c \in Conns : PeekWsError(c)
  \/ \E c \in Conns : PeekWsClose(c)
  \/ TimerFire

Init == PeekInit /\ HubInit /\ TailInit /\ RouteInit /\ ToolIdle /\ DashInit

PeekSpec == Init /\ [][PeekNext]_vars

(* one key, with every way the pipes chunk the output *)
StreamNext ==
  \/ \E c \in 1..MaxStreamConn : Attach(c, "k1")
  \/ \E p \in Procs, chunk \in Chunks :
       dataCount < MaxStreamData /\ ProcStdout(p, chunk)
  \/ \E p \in Procs, chunk \in Chunks :
       dataCount < MaxStreamData /\ ProcStderr(p, chunk)
  \/ \E p \in Procs : ProcClose(p)
  \/ \E c \in Conns : ConnBeginClose(c)
  \/ \E c \in Conns : PeekWsError(c)
  \/ \E c \in Conns : PeekWsClose(c)
  \/ TimerFire

StreamSpec == Init /\ [][StreamNext]_vars

(* the hub with its own producers: the status request and the convoy poller,  *)
(* whose invocations return a list                                            *)
HubNext ==
  \/ \E c \in HubConns : HubConnect(c)
  \/ \E c \in HubConns, success \in BOOLEAN : StatusDone(c, success)
  \/ \E c \in HubConns : HubBeginClose(c)
  \/ \E c \in HubConns : HubClose(c)
  \/ ConvoyTick
  \/ \E t \in 1..MaxTicks : ConvoyDone(t, "list")

HubSpec == Init /\ [][HubNext]_vars

(* the convoy poller with every way its invocation can end *)
PollerNext ==
  \/ \E c \in HubConns : HubConnect(c)
  \/ \E c \in HubConns : HubBeginClose(c)
  \/ ConvoyTick
  \/ \E t \in 1..MaxTicks, outcome \in ConvoyOutcomes :
       ConvoyDone(t, outcome)

PollerSpec == Init /\ [][PollerNext]_vars

(* the hub once its connections are in and their status requests have failed: *)
(* the first connection is open, the others are closing                       *)
HubConnected ==
  /\ hubState = [c \in HubConns |-> IF c = 1 THEN "open" ELSE "closing"]
  /\ clients = HubConns
  /\ hubInbox = [c \in HubConns |-> << >>]
  /\ statusReq = [c \in HubConns |-> "done"]
  /\ convoyRuns = {}
  /\ nextTick = 1
  /\ lastConvoy = "none"
  /\ sendErrors = {}
  /\ pubLog = << >>

TailSpecInit == PeekInit /\ HubConnected /\ TailInit /\ RouteInit /\ ToolIdle /\ DashInit

(* the router with the requests a client can send *)
RouteNext == \E path \in Paths : Upgrade(path)

RouteSpec == Init /\ [][RouteNext]_vars

(* the connections of both feeds with their close and error notifications, *)
(* while the server process runs                                           *)
CloseNext ==
  \/ \E c \in HubConns : serverUp /\ HubConnect(c)
  \/ \E c \in HubConns : serverUp /\ HubBeginClose(c)
  \/ \E c \in HubConns : serverUp /\ HubWsError(c)
  \/ \E c \in HubConns : serverUp /\ HubClose(c)
  \/ \E c \in Conns : serverUp /\ Attach(c, "k1")
  \/ \E p \in Procs : serverUp /\ ProcClose(p)
  \/ \E c \in Conns : serverUp /\ ConnBeginClose(c)
  \/ \E c \in Conns : serverUp /\ PeekWsError(c)
  \/ \E c \in Conns : serverUp /\ PeekWsClose(c)
  \/ serverUp /\ TimerFire

CloseSpec == Init /\ [][CloseNext]_vars

(* an invocation of a helper with any ending and any output *)
ToolInit ==
  /\ PeekInit /\ HubInit /\ TailInit /\ RouteInit /\ DashInit
  /\ toolCmd \in {"gt", "bd"}
  /\ toolEnding \in Endings
  /\ toolStdout \in Texts
  /\ runResult = Pending
  /\ parsed = << "pending", << >> >>

ToolNext ==
  \/ RunReturns
  \/ ParseOutput

ToolSpec == ToolInit /\ [][ToolNext]_vars

(* the streams of two keys side by side, with output *)
IsoNext ==
  \/ \E c \in 1..MaxStreamConn, k \in Keys : Attach(c, k)
  \/ \E p \in Procs : dataCount < MaxIsoData /\ ProcStdout(p, << "a", NL >>)
  \/ \E p \in Procs : ProcClose(p)
  \/ \E c \in Conns : ConnBeginClose(c)
  \/ \E c \in Conns : PeekWsError(c)
  \/ \E c \in Conns : PeekWsClose(c)
  \/ TimerFire

IsoSpec == Init /\ [][IsoNext]_vars

(* the tailer and the event log *)
TailNext ==
  \/ \E kind \in LineKinds : AppendLine(kind)
  \/ RemoveFile
  \/ RewriteFile
  \/ WatchEvents
  \/ \E q \in BagToSet(polls) : ReadFile(q)
  \/ \E q \in BagToSet(polls) : WatchEventsResume(q)

TailSpec == TailSpecInit /\ [][TailNext]_vars

(* the tailer of an append-only log feeding the hub, between the status message *)
(* and the convoy snapshots of the other producers, for one subscriber         *)
FeedNext ==
  \/ AppendLine("rec")
  \/ WatchEvents
  \/ \E q \in BagToSet(polls) : ReadFile(q)
  \/ \E q \in BagToSet(polls) : WatchEventsResume(q)
  \/ HubConnect(1)
  \/ StatusDone(1, TRUE)
  \/ nextTick <= MaxFeedTicks /\ ConvoyTick
  \/ \E t \in 1..MaxFeedTicks : ConvoyDone(t, "list")

FeedSpec == Init /\ [][FeedNext]_vars

(* the dashboard page from mount to unmount and after *)
DashNext ==
  \/ Mount
  \/ Unmount
  \/ \E i \in 1..MaxSockets : WsOpen(i)
  \/ \E i \in 1..MaxSockets : WsClosed(i)
  \/ ReconnectFire

DashSpec == Init /\ [][DashNext]_vars

(* ------------------------------------------------------------------ *)
(* Properties of the peek multiplexer                                 *)
(* ------------------------------------------------------------------ *)
(* a subprocess runs from its spawn until its own 'close' event *)
AliveProcs(k) == { p \in Procs : procKey[p] = k /\ procState[p] \in {"running", "killed"} }

(* C1: for every session key at most one peek subprocess is running at any time, *)
(* a subprocess being running from its spawn until its own close event.          *)
C1_AtMostOneRunning == \A k \in Keys : Cardinality(AliveProcs(k)) <= 1

(* C2: a subprocess is never left running once its subscribers are all gone and  *)
(* the grace period is over: a running, not terminated subprocess whose every    *)
(* connection has had its close notification still has a grace timer pending on  *)
(* its key.                                                                      *)
C2_NoIdleProcess ==
  \A p \in Procs :
    (procState[p] = "running" /\ \A c \in Conns : home[c] = p => connState[c] = "gone")
      => \E i \in 1..Len(timers) : timers[i].key = procKey[p]

(* the original subprocess of k is inside the grace window of its last emptying *)
(* and has not exited by itself                                                 *)
GraceRespawn(k) ==
  \E p \in Procs : /\ procKey[p] = k
                   /\ procState[p] \in {"running", "killed", "reaped"}
                   /\ InGrace(p)

(* C3: an attach inside the grace window after the set last became empty spawns  *)
(* no second subprocess, and the expiry of a grace window in which no attach     *)
(* occurred terminates the subprocess.                                           *)
C3_GraceWindow ==
  [][ /\ \A k \in Keys :
           (NextProc' > NextProc /\ procKey'[NextProc] = k) => ~GraceRespawn(k)
      /\ (timers # << >> /\ timers' = Tail(timers) /\ Head(timers).fresh)
           => procState'[Head(timers).stream] # "running" ]_vars

AttachedTo(k) == { c \in Conns : connState[c] # "new" /\ connKey[c] = k }
SpawnedFor(k) == { p \in Procs : procState[p] # "none" /\ procKey[p] = k }

(* the attaches of key k so far are concurrent: none of the connections has been *)
(* notified closed or errored, and no subprocess of k has exited, failed or been *)
(* terminated                                                                    *)
Concurrent(k) ==
  /\ AttachedTo(k) # {}
  /\ \A c \in AttachedTo(k) : connState[c] \in {"open", "closing"}
  /\ \A p \in SpawnedFor(k) : procState[p] = "running"

(* C4: N attaches of N different connections to a key, all before the first     *)
(* subprocess of the key exits, spawn exactly one subprocess, and all N          *)
(* connections are members of that stream's subscriber set.                      *)
C4_SingleSpawn ==
  \A k \in Keys :
    Concurrent(k) => /\ Cardinality(SpawnedFor(k)) = 1
                     /\ peekStreams[k] \in SpawnedFor(k)
                     /\ AttachedTo(k) = streamClients[peekStreams[k]]

C4_Witness == \E k \in Keys : Concurrent(k) /\ Cardinality(AttachedTo(k)) >= 3

(* the lines a process has written: the segments of its bytes that end in a newline *)
CompleteLines(bytes) ==
  LET segs == SplitNL(bytes, << >>) IN SubSeq(segs, 1, Len(segs) - 1)

RECURSIVE OutputData(_)
OutputData(box) ==
  IF box = << >> THEN << >>
  ELSE IF Head(box).type = "output" THEN << Head(box).data >> \o OutputData(Tail(box))
  ELSE OutputData(Tail(box))

(* C5: every stdout line of the subprocess is delivered as an output message to  *)
(* every open subscriber, each subscriber seeing the lines in the order written, *)
(* none twice: a connection that is open and was a subscriber before the         *)
(* subprocess wrote anything has received exactly the lines written so far.      *)
C5_FanOutFifo ==
  \A c \in Conns :
    (connState[c] = "open" /\ home[c] # 0 /\ joinedAt[c].bytes = 0)
      => OutputData(peekInbox[c]) = CompleteLines(stdoutBytes[home[c]])

(* ------------------------------------------------------------------ *)
(* Properties of the event log tailer                                 *)
(* ------------------------------------------------------------------ *)
(* the records broadcast as event messages so far, in order of broadcast *)
Emitted ==
  LET evs == SelectSeq(pubLog, LAMBDA e : e.msg.type = "event")
  IN [i \in 1..Len(evs) |-> evs[i].msg.data]

(* the records among some lines of the log, in file order *)
RecIds(lines) ==
  LET recs == SelectSeq(lines, LAMBDA l : l[1] = "rec")
  IN [i \in 1..Len(recs) |-> recs[i][2]]

(* this step is the part of a poll that follows its read: poll q leaves *)
Resumes(q) == q.phase = "read" /\ polls' = polls (-) SetToBag({q})

Max(a, b) == IF a >= b THEN a ELSE b

(* C6: under an append-only log a poll whose read succeeded emits exactly the    *)
(* records between the count left by the last successful poll and the end of     *)
(* what it read, in file order, and moves the count there; so what has been      *)
(* emitted is always exactly the records of the first lastEventCount lines, the  *)
(* first poll emits all that is in the file and a poll without new lines emits   *)
(* nothing.                                                                      *)
C6_TailerComplete ==
  [][ AppendOnly' =>
        /\ \A q \in BagToSet(polls) :
             (Resumes(q) /\ q.ok) =>
               LET lines == Lines(q.content)
               IN /\ lastEventCount' = Max(lastEventCount, Len(lines))
                  /\ Emitted' = Emitted \o RecIds(SubSeq(lines, lastEventCount + 1, Len(lines)))
        /\ lastEventCount' <= Len(Lines(log'))
        /\ Emitted' = RecIds(SubSeq(Lines(log'), 1, lastEventCount')) ]_vars

(* polls have emitted the records of a log that also holds lines that are no     *)
(* record: the count is at the end of the log, whose last line is an emitted     *)
(* record                                                                        *)
C6_Witness ==
  /\ AppendOnly
  /\ lastPoll = "emitted"
  /\ Len(Emitted) >= 2
  /\ Len(log) > Len(Emitted)
  /\ lastEventCount = Len(Lines(log))
  /\ \E i \in 1..Len(pubLog) : pubLog[i].msg.data = log[Len(log)][2]

(* C7: under an append-only log no record is broadcast more than once, also when *)
(* polls overlap and their reads complete in any order.                          *)
C7_NoDuplicates ==
  AppendOnly => \A i, j \in 1..Len(Emitted) : Emitted[i] = Emitted[j] => i = j

(* a poll that read later has already emitted while a poll that read earlier,    *)
(* and saw fewer lines, has still to resume                                      *)
C7_Witness ==
  /\ AppendOnly
  /\ lastPoll = "emitted"
  /\ Emitted # << >>
  /\ \E q \in BagToSet(polls) :
       /\ q.phase = "read" /\ q.ok
       /\ Len(Lines(q.content)) > 0
       /\ Len(Lines(q.content)) < lastEventCount

(* C8: a poll whose read fails because the file does not exist emits no event,   *)
(* raises nothing and leaves lastEventCount unchanged, and the polls keep        *)
(* running.                                                                      *)
C8_MissingFile ==
  [][ \A q \in BagToSet(polls) :
        (Resumes(q) /\ ~q.ok) =>
          /\ pubLog' = pubLog
          /\ hubInbox' = hubInbox
          /\ lastEventCount' = lastEventCount
          /\ ~crashed' ]_vars

(* a poll has failed on the removed file after earlier polls had counted lines *)
C8_Witness == lastPoll = "failed" /\ lastEventCount > 0 /\ ~crashed /\ ~fileExists

(* ------------------------------------------------------------------ *)
(* Properties of the broadcast hub                                    *)
(* ------------------------------------------------------------------ *)
RECURSIVE Broadcasts(_)
(* the broadcast messages of an inbox (all but the status reply) *)
Broadcasts(box) ==
  IF box = << >> THEN << >>
  ELSE IF Head(box).type # "status" THEN << Head(box) >> \o Broadcasts(Tail(box))
  ELSE Broadcasts(Tail(box))

(* the messages published while connection c was an open member *)
PublishedTo(c) ==
  LET mine == SelectSeq(pubLog, LAMBDA e : c \in e.rcpt)
  IN [i \in 1..Len(mine) |-> mine[i].msg]

(* C9: a publish delivers the message to every member that is open at the call,  *)
(* skips every member that is not, and never throws, whatever the mix of open    *)
(* and closed members and however connects and closes interleave with publishes. *)
C9_BroadcastIsolation ==
  /\ "broadcast" \notin sendErrors
  /\ \A c \in HubConns : Broadcasts(hubInbox[c]) = PublishedTo(c)

(* two publishes with a member that was open at the first and, still a member,   *)
(* no longer open at the second, which reached another member                    *)
C9_Witness ==
  /\ Len(pubLog) = 2
  /\ \E c, d \in clients :
       /\ hubState[c] = "closing"
       /\ c \in pubLog[1].rcpt /\ c \notin pubLog[2].rcpt
       /\ d \in pubLog[2].rcpt
       /\ Len(Broadcasts(hubInbox[c])) = 1
       /\ Len(Broadcasts(hubInbox[d])) >= 1

(* C10: every new subscription is sent one status snapshot: a connection that is *)
(* still open once its initial status request has completed has received a      *)
(* status message.                                                               *)
C10_StatusOnSubscribe ==
  \A c \in HubConns :
    (hubState[c] = "open" /\ statusReq[c] = "done")
      => \E i \in 1..Len(hubInbox[c]) : hubInbox[c][i].type = "status"

(* the messages of the publishes made by this step *)
NewlyPublished ==
  [i \in 1..(Len(pubLog') - Len(pubLog)) |-> pubLog'[Len(pubLog) + i].msg]

(* C11: no queuing and no replay: in every step a connection receives exactly    *)
(* the event and convoys messages published by that step, and only if it is a    *)
(* member of the hub and open at the publish; a step that publishes nothing,     *)
(* such as its connect, delivers no such message to it.                          *)
C11_NoReplay ==
  [][ \A c \in HubConns :
        Broadcasts(hubInbox'[c]) =
          Broadcasts(hubInbox[c]) \o
            (IF c \in clients /\ hubState[c] = "open" THEN NewlyPublished ELSE << >>)
    ]_vars

(* a connection that subscribed after a first publish, which reached another     *)
(* member, holds the second publish and nothing of the first                     *)
C11_Witness ==
  /\ Len(pubLog) = 2
  /\ pubLog[1].rcpt # {}
  /\ \E c \in clients :
       /\ c \notin pubLog[1].rcpt
       /\ c \in pubLog[2].rcpt
       /\ Broadcasts(hubInbox[c]) = << pubLog[2].msg >>

(* the invocation of tick t returns in this step *)
ConvoyReturns(t) == t \in convoyRuns /\ t \notin convoyRuns'

(* the invocation succeeded and its output is JSON text *)
Parseable(outcome) == outcome \in {"null", "list"}

(* C12: a convoy poll tick whose invocation fails or whose output is no JSON     *)
(* broadcasts nothing, sends no client anything and leaves the poller running,   *)
(* and every tick whose invocation succeeds with parseable output broadcasts one *)
(* convoys message.                                                              *)
C12_PollerSkips ==
  [][ \A t \in 1..MaxTicks :
        ConvoyReturns(t) =>
          /\ ~Parseable(lastConvoy') =>
                /\ pubLog' = pubLog
                /\ hubInbox' = hubInbox
                /\ sendErrors' = sendErrors
                /\ nextTick' = nextTick
          /\ Parseable(lastConvoy') =>
                /\ Len(pubLog') = Len(pubLog) + 1
                /\ pubLog'[Len(pubLog')].msg.type = "convoys" ]_vars

(* ------------------------------------------------------------------ *)
(* Properties of the connection router                                *)
(* ------------------------------------------------------------------ *)
(* this step handles an upgrade request *)
Handled == Len(upgrades') = Len(upgrades) + 1

(* the part of a per-agent path after the prefix *)
Remainder(path) == SubSeq(path, Len(PeekPrefix) + 1, Len(path))

(* connection c is attached to the multiplexer under key k by this step *)
AttachedUnder(c, k) ==
  /\ connState[c] = "new" /\ connState'[c] = "open"
  /\ connKey'[c] = k
  /\ home'[c] # 0
  /\ procKey'[home'[c]] = k
  /\ c \in streamClients'[home'[c]]

(* C13: a connection request with the path '/ws' is subscribed to the hub and to *)
(* no peek stream; one whose path starts with '/ws/peek/' is attached to the     *)
(* multiplexer under the URL-decoded remainder of the path and is not added to   *)
(* the hub; one with any other path is rejected and becomes a member of neither. *)
C13_Routing ==
  [][ Handled =>
        LET path == upgrades'[Len(upgrades')].path IN
        /\ path = WsPath =>
             /\ \E c \in HubConns : c \notin clients /\ clients' = clients \cup {c}
             /\ peekVars' = peekVars
        /\ StartsWith(path, PeekPrefix) =>
             /\ ~DecodeThrows(Remainder(path))
             /\ \E c \in Conns : AttachedUnder(c, KeyName(Decode(Remainder(path))))
             /\ hubVars' = hubVars
        /\ (path # WsPath /\ ~StartsWith(path, PeekPrefix)) =>
             /\ peekVars' = peekVars
             /\ hubVars' = hubVars ]_vars

(* ------------------------------------------------------------------ *)
(* Close and error notifications                                      *)
(* ------------------------------------------------------------------ *)
(* the close or the error notification of connection c is handled in this step *)
HubNotified(c) == hubState'[c] # hubState[c] /\ hubState'[c] \in {"errored", "gone"}
PeekNotified(c) == connState'[c] # connState[c] /\ connState'[c] \in {"errored", "gone"}

(* a stream whose set is in use: it is registered, or its subprocess still runs *)
InUse(p) == (\E k \in Keys : peekStreams[k] = p) \/ procState[p] = "running"

(* C14: after the close or the error notification of a connection the connection *)
(* is no longer in the hub's client set (system-wide feed) or in a subscriber set *)
(* of its key (per-agent feed), and the notification of a connection that is in   *)
(* no set changes no set.                                                         *)
C14_Detach ==
  [][ /\ \A c \in HubConns : HubNotified(c) => c \notin clients'
      /\ \A c \in Conns : PeekNotified(c) =>
           /\ \A p \in Procs : (InUse(p)' /\ procKey'[p] = connKey[c]) => c \notin streamClients'[p]
           /\ (\A p \in Procs : c \notin streamClients[p]) => streamClients' = streamClients
    ]_vars

Blanks == { [i \in 1..n |-> " "] : n \in 0..MaxText }

(* the JSON texts of nesting depth up to d, each with its value: the numbers, *)
(* the empty array and the arrays of one value, with white space between the  *)
(* tokens                                                                     *)
RECURSIVE JsonUpTo(_)
JsonUpTo(d) ==
  IF d = 0
    THEN { << [i \in 1..n |-> "1"], << "num", [i \in 1..n |-> "1"] >> >> : n \in 1..MaxText }
         \cup { << << "[" >> \o w \o << "]" >>, << "arr", << >> >> >> : w \in Blanks }
    ELSE JsonUpTo(d - 1)
         \cup { << << "[" >> \o w[1] \o p[1] \o w[2] \o << "]" >>, << "arr", << p[2] >> >> >> :
                  p \in JsonUpTo(d - 1), w \in Blanks \X Blanks }

JsonTexts == { p \in JsonUpTo(MaxText \div 2) : Len(p[1]) <= MaxText }

(* the JSON texts that a text is, white space around it set aside *)
Readings(text) ==
  { p \in JsonTexts : \E w \in Blanks \X Blanks : text = w[1] \o p[1] \o w[2] }

(* C16: parseJsonOutput is total: for every text it returns the value of the     *)
(* strict JSON parse of the trimmed text when the text is JSON, and null, never  *)
(* raising, when it is not.                                                      *)
C16_ParseTotal ==
  parsed # << "pending", << >> >> =>
    /\ parsed[1] \in {"null", "num", "arr"}
    /\ \A p \in Readings(runResult.output) : parsed = p[2]
    /\ Readings(runResult.output) = {} => parsed = << "null", << >> >>

(* '[1]' with white space before it has been parsed to the array of the number *)
C16_Witness ==
  /\ runResult # Pending /\ runResult.success
  /\ runResult.output = << " ", "[", "1", "]" >>
  /\ parsed = << "arr", << << "num", << "1" >> >> >> >>

(* ------------------------------------------------------------------ *)
(* Isolation of the session keys                                      *)
(* ------------------------------------------------------------------ *)
(* the keys that the event handled in this step concerns: the key of the         *)
(* connection that attaches, closes or errors, of the subprocess that writes or  *)
(* exits, of the grace timer that fires                                          *)
EventKeys ==
  { connKey'[c] : c \in { d \in Conns : connState'[d] # connState[d] } }
  \cup { procKey[p] : p \in { q \in Procs : /\ procState'[q] # procState[q]
                                             /\ procState'[q] \in {"closed", "reaped"} } }
  \cup { procKey[p] : p \in { q \in Procs : stdoutBytes'[q] # stdoutBytes[q] } }
  \cup (IF timers # << >> /\ timers' = Tail(timers) THEN { Head(timers).key } ELSE {})

(* the stream of key k is as it was: its entry, its subprocesses, their *)
(* subscriber sets and what its connections have received               *)
KeyUnchanged(k) ==
  /\ peekStreams'[k] = peekStreams[k]
  /\ \A p \in Procs : (procState[p] # "none" /\ procKey[p] = k) =>
       /\ procState'[p] = procState[p]
       /\ procKey'[p] = k
       /\ streamClients'[p] = streamClients[p]
  /\ \A c \in Conns : (connState[c] # "new" /\ connKey[c] = k) =>
       /\ peekInbox'[c] = peekInbox[c]
       /\ connState'[c] = connState[c]

KilledByTimer(p) ==
  /\ timers # << >> /\ timers' = Tail(timers)
  /\ procState[p] = "running" /\ procState'[p] = "killed"

(* C18: the grace timer is cancellable: a timer after whose start an attach for   *)
(* the key has occurred never terminates the subprocess, so that a subprocess is  *)
(* terminated by a timer only when its subscriber set has been empty for the      *)
(* whole grace period, that is by the timer started when its set last became      *)
(* empty.                                                                         *)
C18_CancellableTimer ==
  [][ \A p \in Procs :
        KilledByTimer(p) => (Head(timers).stream = p /\ Head(timers).fresh) ]_vars

(* ------------------------------------------------------------------ *)
(* Joining an existing stream                                         *)
(* ------------------------------------------------------------------ *)
(* connection c attaches in this step to a key that has a stream *)
Joins(c) ==
  /\ connState[c] = "new" /\ connState'[c] = "open"
  /\ peekStreams[connKey'[c]] # 0

(* connection c came in by joining an existing stream *)
Joined(c) ==
  /\ peekInbox[c] # << >>
  /\ Head(peekInbox[c]) = Msg("info", << "Joined existing stream" >>)

(* the lines process p has written since connection c joined *)
LinesSinceJoin(c) ==
  CompleteLines(SubSeq(stdoutBytes[home[c]], joinedAt[c].bytes + 1,
                       Len(stdoutBytes[home[c]])))

(* C19: an attach for a key that already has a stream adds the connection to the *)
(* existing subscriber set, sends it one info message 'Joined existing stream'   *)
(* and starts no subprocess; from then on, while it is open, the connection      *)
(* receives every output line the existing subprocess writes.                    *)
C19_JoinExisting ==
  [][ \A c \in Conns :
        /\ Joins(c) =>
             LET s == peekStreams[connKey'[c]] IN
             /\ streamClients'[s] = streamClients[s] \cup {c}
             /\ peekInbox'[c] = Append(peekInbox[c], Msg("info", << "Joined existing stream" >>))
             /\ procState' = procState
             /\ peekStreams' = peekStreams
        /\ (connState'[c] = "open" /\ Joined(c)') =>
             OutputData(peekInbox'[c]) = LinesSinceJoin(c)'
    ]_vars

(* ------------------------------------------------------------------ *)
(* Exit of the subprocess                                             *)
(* ------------------------------------------------------------------ *)
(* the close event of subprocess p is handled in this step *)
Exits(p) == procState'[p] # procState[p] /\ procState'[p] \in {"closed", "reaped"}

ExitInfo == Msg("info", << "Process exited with code" >>)

(* C20: when the subprocess of a key exits, one info message with the exit code  *)
(* is sent to every current open subscriber and to nobody else, and the key is   *)
(* Absent: it has no entry and no subprocess left running, so that a later       *)
(* attach starts a fresh one; and the output of a subprocess is delivered only   *)
(* to connections that attached to it, not to subscribers of an earlier one.     *)
C20_ExitClears ==
  [][ /\ \A p \in Procs : Exits(p) =>
           /\ \A c \in Conns :
                peekInbox'[c] = IF c \in streamClients[p] /\ connState[c] = "open"
                                  THEN Append(peekInbox[c], ExitInfo)
                                  ELSE peekInbox[c]
           /\ peekStreams'[procKey[p]] = 0
           /\ \A q \in Procs : procKey[q] = procKey[p] => procState'[q] # "running"
      /\ \A p \in Procs : stdoutBytes'[p] # stdoutBytes[p] =>
           \A c \in Conns : peekInbox'[c] # peekInbox[c] => home[c] = p
    ]_vars

(* ------------------------------------------------------------------ *)
(* First attach and spawn failure                                     *)
(* ------------------------------------------------------------------ *)
(* connection c attaches in this step for a key that has no entry *)
FirstAttach(c) ==
  connState[c] = "new" /\ connState'[c] = "open" /\ peekStreams[connKey'[c]] = 0

(* the frames connection c is sent in this step *)
SentNow(c) == SubSeq(peekInbox'[c], Len(peekInbox[c]) + 1, Len(peekInbox'[c]))

(* C21: the first attach for a key without a stream launches a subprocess for    *)
(* that key with the attaching connection as its only subscriber; when the spawn *)
(* succeeds the key refers to it, and when the spawn fails the subscriber is     *)
(* sent an error message and the key has no entry again, so that the next attach *)
(* for the key is again a first attach, with a new spawn attempt.                *)
C21_FirstAttach ==
  [][ \A c \in Conns : FirstAttach(c) =>
        LET k == connKey'[c]
            p == NextProc
        IN /\ procState[p] = "none"
           /\ procState'[p] \in {"running", "failed"}
           /\ procKey'[p] = k
           /\ streamClients'[p] = {c}
           /\ procState'[p] = "running" => peekStreams'[k] = p /\ SentNow(c) = << >>
           /\ procState'[p] = "failed" =>
                /\ SentNow(c) # << >>
                /\ Head(SentNow(c)) = Msg("error", << "spawn failed" >>)
                /\ peekStreams'[k] = 0
    ]_vars

(* a spawn failed for a key, and a later attach for the key spawned again *)
C21_Witness ==
  \E p, q \in Procs :
    /\ p < q
    /\ procState[p] = "failed"
    /\ procKey[q] = procKey[p]
    /\ procState[q] = "running"

(* ------------------------------------------------------------------ *)
(* Line framing of the subprocess output                              *)
(* ------------------------------------------------------------------ *)
(* C22: every line a subprocess writes to its standard output is forwarded as    *)
(* exactly one output message whose data is that line verbatim, however the pipe *)
(* splits the bytes into chunks: what the stdout handler of a stream has         *)
(* forwarded is the sequence of the lines written so far.                        *)
C22_LineFraming ==
  \A p \in Procs : outMsgs[p] = CompleteLines(stdoutBytes[p])

(* ------------------------------------------------------------------ *)
(* Standard error of the subprocess                                   *)
(* ------------------------------------------------------------------ *)
(* the lines process p completes on its standard error in this step *)
ErrorLinesNow(p) ==
  LET old == CompleteLines(stderrBytes[p])
      new == CompleteLines(stderrBytes'[p])
  IN SubSeq(new, Len(old) + 1, Len(new))

(* the text of a message without a line terminator at its end *)
StripNL(d) == IF d # << >> /\ d[Len(d)] = NL THEN SubSeq(d, 1, Len(d) - 1) ELSE d

(* the texts of the error messages among the frames, in order *)
RECURSIVE ErrorData(_)
ErrorData(box) ==
  IF box = << >> THEN << >>
  ELSE IF Head(box).type = "error" THEN << StripNL(Head(box).data) >> \o ErrorData(Tail(box))
  ELSE ErrorData(Tail(box))

(* C23: every line a subprocess writes to its standard error is delivered as one *)
(* error message whose data is that line (with or without its terminator) to     *)
(* every open subscriber of the stream and to nobody else: in a step in which    *)
(* standard error is read, each open member is sent one error message per line   *)
(* completed in that step, and nothing else.                                     *)
C23_StderrLines ==
  [][ \A p \in Procs : stderrBytes'[p] # stderrBytes[p] =>
        \A c \in Conns :
          /\ Len(SentNow(c)) = Len(ErrorData(SentNow(c)))
          /\ ErrorData(SentNow(c)) =
               IF c \in streamClients[p] /\ connState[c] = "open"
                 THEN ErrorLinesNow(p) ELSE << >>
    ]_vars

(* ------------------------------------------------------------------ *)
(* Lines of the log that are no event                                 *)
(* ------------------------------------------------------------------ *)
(* JSON.parse(line) does not throw *)
Parses(line) == line[1] # "bad"

(* what the lines that parse are parsed to, in file order *)
ParsedValues(lines) ==
  LET ok == SelectSeq(lines, Parses)
  IN [i \in 1..Len(ok) |-> ParseLine(ok[i])]

(* the new lines poll q finds when it resumes now *)
FoundLines(q) ==
  LET lines == Lines(q.content)
  IN SubSeq(lines, lastEventCount + 1, Len(lines))

(* C24: when a poll finds new lines of which one fails to parse as JSON, that    *)
(* line is skipped and the batch is not aborted: every other new line of the     *)
(* poll is emitted, in file order, and the count becomes the number of non-empty *)
(* lines read, the unparsable one included.                                      *)
C24_SkipUnparsable ==
  [][ \A q \in BagToSet(polls) :
        (Resumes(q) /\ q.ok /\ \E i \in 1..Len(FoundLines(q)) : ~Parses(FoundLines(q)[i]))
          => /\ Emitted' = Emitted \o ParsedValues(FoundLines(q))
             /\ lastEventCount' = Len(Lines(q.content))
    ]_vars

(* ------------------------------------------------------------------ *)
(* Polls without new lines                                            *)
(* ------------------------------------------------------------------ *)
(* C25: a poll that read a file whose number of non-empty lines is at most the   *)
(* count emits nothing and leaves the count unchanged, also when the file was    *)
(* recreated empty or rewritten shorter.                                         *)
C25_NoNewLines ==
  [][ \A q \in BagToSet(polls) :
        (Resumes(q) /\ q.ok /\ Len(Lines(q.content)) <= lastEventCount)
          => /\ lastEventCount' = lastEventCount
             /\ Emitted' = Emitted
             /\ hubInbox' = hubInbox
    ]_vars

(* the last poll read a recreated file with no more lines than the count, which *)
(* earlier polls had moved up                                                   *)
C25_Witness == lastPoll = "shrunk" /\ lastEventCount > 0 /\ rewrites > 0

(* ------------------------------------------------------------------ *)
(* The member set of the hub                                          *)
(* ------------------------------------------------------------------ *)
(* the messages published in this step *)
PublishedNow == SubSeq(pubLog', Len(pubLog) + 1, Len(pubLog'))

RECURSIVE MsgsOf(_)
MsgsOf(entries) ==
  IF entries = << >> THEN << >> ELSE << Head(entries).msg >> \o MsgsOf(Tail(entries))

(* C26: publish never changes the member set of the hub: every member that is   *)
(* open is sent the message, a member that is not open is skipped without an    *)
(* error and stays a member, so the next publish comes to it again; and a       *)
(* connection leaves the set only in the step that handles its own disconnect.  *)
C26_MembersKept ==
  [][ /\ pubLog' # pubLog =>
           /\ clients' = clients
           /\ sendErrors' = sendErrors
           /\ \A c \in HubConns :
                hubInbox'[c] = IF c \in clients /\ hubState[c] = "open"
                                 THEN hubInbox[c] \o MsgsOf(PublishedNow)
                                 ELSE hubInbox[c]
      /\ \A c \in clients \ clients' :
           /\ hubState[c] # "gone" /\ hubState'[c] = "gone"
           /\ clients' = clients \ {c}
    ]_vars

(* a member that received the first publish was not open at the second one and *)
(* is still a member                                                           *)
C26_Witness ==
  /\ Len(pubLog) >= 2
  /\ \E c \in clients :
       /\ c \in pubLog[1].rcpt
       /\ c \notin pubLog[2].rcpt
       /\ hubState[c] = "closing"

(* ------------------------------------------------------------------ *)
(* Order of the event messages                                        *)
(* ------------------------------------------------------------------ *)
(* the data of the event messages among the frames, in order of arrival *)
RECURSIVE EventData(_)
EventData(box) ==
  IF box = << >> THEN << >>
  ELSE IF Head(box).type = "event" THEN << Head(box).data >> \o EventData(Tail(box))
  ELSE EventData(Tail(box))

(* the records of the lines the tailer has counted, in file order *)
SeenRecords == RecIds(SubSeq(Lines(log), 1, lastEventCount))

IsSuffix(part, whole) ==
  /\ Len(part) <= Len(whole)
  /\ part = SubSeq(whole, Len(whole) - Len(part) + 1, Len(whole))

IsPrefix(part, whole) ==
  /\ Len(part) <= Len(whole)
  /\ part = SubSeq(whole, 1, Len(part))

(* C27: event messages keep the order of the log through the hub: under an      *)
(* append-only log the event messages a subscriber has received, within a batch *)
(* and across batches, are a run of consecutive records of the log in file      *)
(* order, oldest first, and for a subscriber that is still open the run extends *)
(* to the last record the tailer has counted, whatever status and convoy        *)
(* messages lie between them.                                                   *)
C27_EventOrder ==
  AppendOnly =>
    \A c \in HubConns :
      LET ev == EventData(hubInbox[c]) IN
      /\ \E k \in 0..Len(SeenRecords) :
           IsPrefix(ev, SubSeq(SeenRecords, k + 1, Len(SeenRecords)))
      /\ hubState[c] = "open" => IsSuffix(ev, SeenRecords)

(* an open subscriber has received, in this order, its status message, an event, *)
(* a convoy snapshot and the events of a later batch of two                      *)
C27_Witness ==
  \E c \in HubConns :
    /\ hubState[c] = "open"
    /\ Len(hubInbox[c]) >= 5
    /\ hubInbox[c][1].type = "status"
    /\ hubInbox[c][2].type = "event"
    /\ hubInbox[c][3].type = "convoys"
    /\ hubInbox[c][4].type = "event"
    /\ hubInbox[c][5].type = "event"

(* ------------------------------------------------------------------ *)
(* The entry a close or error event removes                           *)
(* ------------------------------------------------------------------ *)
(* C28: the close or error event of a subprocess removes the entry of that       *)
(* subprocess only: when the key's entry belongs to a newer subprocess it is     *)
(* left alone, so that every running subprocess that has subscribers is          *)
(* registered under its key, where the teardown after the last detach finds it.  *)
C28_OwnEntryOnly ==
  [][ /\ \A p \in Procs : Exits(p) =>
           peekStreams' = IF peekStreams[procKey[p]] = p
                            THEN [peekStreams EXCEPT ![procKey[p]] = 0]
                            ELSE peekStreams
      /\ \A p \in Procs :
           (procState'[p] = "running" /\ streamClients'[p] # {})
             => peekStreams'[procKey'[p]] = p
    ]_vars

(* ------------------------------------------------------------------ *)
(* Order of the convoy snapshots                                      *)
(* ------------------------------------------------------------------ *)
(* the ticks of the convoy snapshots among the frames, in order of arrival *)
ConvoyTicksOf(box) ==
  LET cs == SelectSeq(box, LAMBDA m : m.type = "convoys")
  IN [i \in 1..Len(cs) |-> cs[i].data]

(* C29: convoy snapshots are broadcast in the order in which their poll ticks    *)
(* started: no subscriber receives the snapshot of an earlier tick after that of *)
(* a later tick, also when invocations overlap.                                  *)
C29_ConvoyOrder ==
  \A c \in HubConns :
    \A i, j \in 1..Len(ConvoyTicksOf(hubInbox[c])) :
      i < j => ConvoyTicksOf(hubInbox[c])[i] < ConvoyTicksOf(hubInbox[c])[j]

(* ------------------------------------------------------------------ *)
(* Reconnect of the dashboard                                         *)
(* ------------------------------------------------------------------ *)
(* C30: once the dashboard has unmounted its reconnect logic opens no further *)
(* WebSocket; while it is mounted the close of a connection schedules one     *)
(* reconnect attempt, and at most one connection is live at a time.           *)
C30_NoReconnectAfterUnmount ==
  [][ /\ dashPhase = "unmounted" => Len(sockets') = Len(sockets)
      /\ (dashPhase = "mounted" /\
            \E i \in 1..Len(sockets) : Live(sockets[i]) /\ ~Live(sockets'[i]))
           => reconnects' = reconnects + 1
      /\ dashPhase' = "mounted" =>
           Cardinality({ i \in 1..Len(sockets') : Live(sockets'[i]) }) <= 1
    ]_vars

====
